---- MODULE Spec2Model ----
(***************************************************************************)
(* Model of src/ExtractTagData.py: extract_mappings, the tag-resolution    *)
(* engine.  Python strings that the code parses or formats (tag operands,  *)
(* data types, instruction names, numeric attributes) are tuples of        *)
(* one-character strings, so that int(), f"{n}", str.upper() and the       *)
(* regular expressions are modelled by what they do.  Free-text fields     *)
(* that are only copied (descriptions, program / routine names, rung       *)
(* numbers) are TLA+ strings.                                              *)
(***************************************************************************)
EXTENDS Integers, Sequences, FiniteSets, TLC

VARIABLES
    col45,                \* input: the Col45 column of the Excel sheet (a list of cells)
    l5x_tags,             \* input: the <Tag> elements of the L5X document, in document order
    l5x_rungs,            \* input: the <Rung> elements of the L5X document, in document order
    pc,                   \* position in extract_mappings
    dest_tags_set,        \* set(df_tags["Col45"])
    tags_sorted,          \* sorted(dest_tags_set, key=tag_sort_key)
    dtype_map,            \* base name -> upper-cased DataType
    base_desc_map,        \* base name -> description
    bit_comment_map,      \* operand -> comment text
    control_len_map,      \* CONTROL tag name -> LEN
    rung_i,               \* number of rungs already scanned
    records,              \* list of row dicts
    found_original_tags,  \* set of monitored tags already mapped
    ote_map,              \* operand -> list of (Program, Routine, Rung)
    df_out                \* the final table (list of rows), written at step 9

vars == <<col45, l5x_tags, l5x_rungs, pc, dest_tags_set, tags_sorted, dtype_map,
          base_desc_map, bit_comment_map, control_len_map, rung_i, records,
          found_original_tags, ote_map, df_out>>

-----------------------------------------------------------------------------
(* Python string primitives *)

\* Python's None, for an XML attribute or element that is absent (lxml .get()).
None == <<"None">>

Digits == <<"0", "1", "2", "3", "4", "5", "6", "7", "8", "9">>

IsDigit(c) == \E i \in DOMAIN Digits : Digits[i] = c

DigitVal(c) == (CHOOSE i \in DOMAIN Digits : Digits[i] = c) - 1

\* \d+ : a non-empty run of digits
AllDigits(s) == Len(s) > 0 /\ \A i \in DOMAIN s : IsDigit(s[i])

\* int(s) for a string of digits (leading zeros allowed)
RECURSIVE ParseInt(_)
ParseInt(s) ==
    IF Len(s) = 0 THEN 0
    ELSE ParseInt(SubSeq(s, 1, Len(s) - 1)) * Cardinality(DOMAIN Digits) + DigitVal(s[Len(s)])

\* f"{n}" for a non-negative integer: decimal digits, no leading zeros
RECURSIVE IntStr(_)
IntStr(n) ==
    IF n < Cardinality(DOMAIN Digits) THEN <<Digits[n + 1]>>
    ELSE IntStr(n \div Cardinality(DOMAIN Digits)) \o <<Digits[(n % Cardinality(DOMAIN Digits)) + 1]>>

\* int(val) raises ValueError / TypeError: val is None, empty or not a digit string
CanInt(s) == s # None /\ AllDigits(s)

Lower == <<"a", "b", "c", "d", "e", "f", "g", "h", "i", "j", "k", "l", "m",
           "n", "o", "p", "q", "r", "s", "t", "u", "v", "w", "x", "y", "z">>
Upper == <<"A", "B", "C", "D", "E", "F", "G", "H", "I", "J", "K", "L", "M",
           "N", "O", "P", "Q", "R", "S", "T", "U", "V", "W", "X", "Y", "Z">>

UpperChar(c) ==
    IF \E i \in DOMAIN Lower : Lower[i] = c
    THEN Upper[CHOOSE i \in DOMAIN Lower : Lower[i] = c]
    ELSE c

\* str.upper()
ToUpper(s) == [i \in DOMAIN s |-> UpperChar(s[i])]

\* Code-point order of the characters that occur in operands
CodePoints == <<".", "0", "1", "2", "3", "4", "5", "6", "7", "8", "9">> \o Upper
              \o <<"[", "]", "_">> \o Lower

Ord(c) == CHOOSE i \in DOMAIN CodePoints : CodePoints[i] = c

\* Python's str < str
RECURSIVE StrLess(_, _)
StrLess(a, b) ==
    IF Len(b) = 0 THEN FALSE
    ELSE IF Len(a) = 0 THEN TRUE
    ELSE IF a[1] # b[1] THEN Ord(a[1]) < Ord(b[1])
    ELSE StrLess(Tail(a), Tail(b))

\* dict.get(k, default)
Get(map, k, default) == IF k \in DOMAIN map THEN map[k] ELSE default

\* d[k] = v
Put(map, k, v) == [x \in DOMAIN map \cup {k} |-> IF x = k THEN v ELSE map[x]]

Range(s) == {s[i] : i \in DOMAIN s}

-----------------------------------------------------------------------------
(* Tag helpers *)

\* Positions of a trailing "[digits]" in s: the set is empty or holds the one
\* index of its "[".
BracketAt(s) ==
    {i \in DOMAIN s : /\ s[Len(s)] = "]"
                      /\ s[i] = "["
                      /\ AllDigits(SubSeq(s, i + 1, Len(s) - 1))}

\* re.match(r'^(.+?)\[(\d+)\]$', tag): a trailing [digits] after a non-empty base
split_index(tag) ==
    IF \E i \in BracketAt(tag) : i > 1
    THEN LET i == CHOOSE j \in BracketAt(tag) : j > 1
         IN  <<SubSeq(tag, 1, i - 1), ParseInt(SubSeq(tag, i + 1, Len(tag) - 1))>>
    ELSE <<tag, 0>>

\* re.sub(r'\[\d+\]$', '', tag)
strip_index(tag) ==
    IF BracketAt(tag) # {}
    THEN SubSeq(tag, 1, (CHOOSE j \in BracketAt(tag) : TRUE) - 1)
    ELSE tag

\* No match of a regular expression
NoMatch == <<>>

\* Position of the "]" closing a leading "[digits]" of r, or 0
CloseAt(r) ==
    IF \E y \in DOMAIN r : r[1] = "[" /\ r[y] = "]" /\ AllDigits(SubSeq(r, 2, y - 1))
    THEN CHOOSE y \in DOMAIN r : r[1] = "[" /\ r[y] = "]" /\ AllDigits(SubSeq(r, 2, y - 1))
    ELSE 0

\* The rest r of a tag against (?:\[(\d+)\])?(?:\.(\d+))?$ : the pair
\* <<idx, bit>>, -1 for a group that did not take part, or NoMatch.
TailMatch(r) ==
    LET c == CloseAt(r) IN
    IF Len(r) = 0 THEN <<-1, -1>>
    ELSE IF c > 0 /\ c = Len(r) THEN <<ParseInt(SubSeq(r, 2, c - 1)), -1>>
    ELSE IF c > 0 /\ r[c + 1] = "." /\ AllDigits(SubSeq(r, c + 2, Len(r)))
         THEN <<ParseInt(SubSeq(r, 2, c - 1)), ParseInt(SubSeq(r, c + 2, Len(r)))>>
    ELSE IF r[1] = "." /\ AllDigits(SubSeq(r, 2, Len(r)))
         THEN <<-1, ParseInt(SubSeq(r, 2, Len(r)))>>
    ELSE NoMatch

\* _tag_pat, ^(.*?)(?:\[(\d+)\])?(?:\.(\d+))?$ : the lazy group takes the
\* shortest base whose rest matches; the key is (base, idx, bit).
tag_sort_key(tag) ==
    LET rest == [q \in 0..Len(tag) |-> TailMatch(SubSeq(tag, q + 1, Len(tag)))]
        p == CHOOSE q \in 0..Len(tag) :
                 rest[q] # NoMatch /\ \A q2 \in 0..(q - 1) : rest[q2] = NoMatch
    IN  <<SubSeq(tag, 1, p), rest[p][1], rest[p][2]>>

\* Python tuple order on sort keys
KeyLess(a, b) ==
    \/ StrLess(a[1], b[1])
    \/ a[1] = b[1] /\ a[2] < b[2]
    \/ a[1] = b[1] /\ a[2] = b[2] /\ a[3] < b[3]

-----------------------------------------------------------------------------
(* 1) Load Excel tags *)

\* Stable insertion of tag t into a list sorted by tag_sort_key: after every
\* element whose key is not greater (ties keep their arrival order).
RECURSIVE InsertByKey(_, _)
InsertByKey(sorted, t) ==
    IF Len(sorted) = 0 THEN <<t>>
    ELSE IF KeyLess(tag_sort_key(t), tag_sort_key(sorted[Len(sorted)]))
         THEN InsertByKey(SubSeq(sorted, 1, Len(sorted) - 1), t) \o <<sorted[Len(sorted)]>>
         ELSE sorted \o <<t>>

\* sorted(iterable, key=tag_sort_key): Python's sort is stable
RECURSIVE SortedByKey(_)
SortedByKey(order) ==
    IF Len(order) = 0 THEN <<>>
    ELSE InsertByKey(SortedByKey(SubSeq(order, 1, Len(order) - 1)), order[Len(order)])

\* The orders in which iterating a set of strings can yield its elements
\* (the hash seed of the interpreter decides)
RECURSIVE IterationOrders(_)
IterationOrders(S) ==
    IF S = {} THEN {<<>>}
    ELSE UNION {{<<x>> \o o : o \in IterationOrders(S \ {x})} : x \in S}

-----------------------------------------------------------------------------
(* 3) Program index: one step per <Tag> element *)

EmptyMap == [x \in {} |-> <<>>]

INT == <<"I", "N", "T">>
DINT == <<"D", "I", "N", "T">>
CONTROL == <<"C", "O", "N", "T", "R", "O", "L">>

\* The element has no DataValueMember named LEN
NoElement == <<"NoElement">>

\* Bit-level comments of one <Tag>: <Comments><Comment Operand=...>text
RECURSIVE TagComments(_, _, _)
TagComments(bcm, base_name, comments) ==
    IF Len(comments) = 0 THEN bcm
    ELSE LET c == Head(comments)
             key == IF c.Operand[1] = "[" THEN base_name \o c.Operand ELSE c.Operand
         IN  IF c.Operand = <<>> \/ c.Text = ""
             THEN TagComments(bcm, base_name, Tail(comments))
             ELSE TagComments(Put(bcm, key, c.Text), base_name, Tail(comments))

\* The body of the loop over root.findall(".//Tag")
IndexTag(maps, t) ==
    IF t.Name = None \/ t.Name = <<>> THEN maps
    ELSE LET dt == IF t.DataType = None THEN <<>> ELSE ToUpper(t.DataType)
         IN  [dtype |-> IF dt # <<>> THEN Put(maps.dtype, t.Name, dt) ELSE maps.dtype,
              desc  |-> IF t.Description # "" THEN Put(maps.desc, t.Name, t.Description)
                        ELSE maps.desc,
              bitc  |-> TagComments(maps.bitc, t.Name, t.Comments),
              clen  |-> IF dt = CONTROL /\ t.LEN # NoElement /\ CanInt(t.LEN)
                        THEN Put(maps.clen, t.Name, ParseInt(t.LEN))
                        ELSE maps.clen]

RECURSIVE IndexTags(_, _)
IndexTags(maps, tags) ==
    IF Len(tags) = 0 THEN maps
    ELSE IndexTags(IndexTag(maps, Head(tags)), Tail(tags))

-----------------------------------------------------------------------------
(* 4) - 5) Rung scan.  A rung's Text is the list of its instruction calls,  *)
(* each the instruction name as written and its operand strings; each       *)
(* regular expression finds the calls of its family, in text order.         *)

COP == <<"C", "O", "P">>
CPS == <<"C", "P", "S">>
MOV == <<"M", "O", "V">>
FFL == <<"F", "F", "L">>
OTE == <<"O", "T", "E">>
MESSAGE == <<"M", "E", "S", "S", "A", "G", "E">>
NotFound == <<"N", "o", "t", " ", "F", "o", "u", "n", "d">>

\* One row dict of records
Row(dest, descr, dt, prog, rout, rung, instr, src) ==
    [Col45 |-> dest, Description |-> descr, DataType |-> dt, Program |-> prog,
     Routine |-> rout, Rung |-> rung, Instruction |-> instr, Source |-> src]

\* f"{base}[{i}]"
Elem(base, i) == base \o <<"[">> \o IntStr(i) \o <<"]">>

\* cop_re: (COP|CPS)(src, dst, digits), case-insensitive
cop_re(t) == ToUpper(t.op) \in {COP, CPS} /\ Len(t.args) = 3 /\ AllDigits(t.args[3])

\* mov_re: MOV(src, dst)
mov_re(t) == ToUpper(t.op) = MOV /\ Len(t.args) = 2

\* ffl_re: FFL(src, dst, control ... ; further operands are not looked at
ffl_re(t) == ToUpper(t.op) = FFL /\ Len(t.args) >= 3

\* ote_text_re: OTE(operand)
ote_text_re(t) == ToUpper(t.op) = OTE /\ Len(t.args) = 1

\* OteScan with the entry of an operand overwritten by the latest rung
RECURSIVE OteScan_Overwrite(_, _, _)
OteScan_Overwrite(om, text, ctx) ==
    IF Len(text) = 0 THEN om
    ELSE LET t == Head(text) IN
         IF ote_text_re(t) /\ t.args[1] # <<>>
         THEN OteScan_Overwrite(Put(om, t.args[1], <<ctx>>), Tail(text), ctx)
         ELSE OteScan_Overwrite(om, Tail(text), ctx)

\* Track OTE operands present on this rung: setdefault(operand, []).append(ctx)
RECURSIVE OteScan(_, _, _)
OteScan(om, text, ctx) ==
    IF Len(text) = 0 THEN om
    ELSE LET t == Head(text) IN
         IF ote_text_re(t) /\ t.args[1] # <<>>
         THEN OteScan(Put(om, t.args[1], Get(om, t.args[1], <<>>) \o <<ctx>>), Tail(text), ctx)
         ELSE OteScan(om, Tail(text), ctx)

\* Rung-level bit comments: kept only if the operand has no comment yet
RECURSIVE RungComments(_, _)
RungComments(bcm, elems) ==
    IF Len(elems) = 0 THEN bcm
    ELSE LET e == Head(elems) IN
         IF e.Operand # <<>> /\ e.Comment # "" /\ e.Operand \notin DOMAIN bcm
         THEN RungComments(Put(bcm, e.Operand, e.Comment), Tail(elems))
         ELSE RungComments(bcm, Tail(elems))

\* for k in range(n): the rows for k = 0 .. n-1 whose destination is
\* monitored; srcs[k + 1] is the source of element k and n is its length
Expand(srcs, dst_base, dst_i0, rung, instr) ==
    LET all == [i \in DOMAIN srcs |->
                  Row(Elem(dst_base, dst_i0 + (i - 1)),
                      Get(base_desc_map, dst_base, ""),
                      Get(dtype_map, dst_base, <<>>),
                      rung.Program, rung.Routine, rung.Number, instr, srcs[i])]
        Monitored(r) == r.Col45 \in dest_tags_set
    IN  SelectSeq(all, Monitored)

\* CopRows with every element copied from the first source element
CopRows_NoOffset(t, rung) ==
    LET src == split_index(t.args[1])
        dst == split_index(t.args[2])
    IN  Expand([i \in 1..ParseInt(t.args[3]) |-> Elem(src[1], src[2])],
               dst[1], dst[2], rung, ToUpper(t.op))

\* COP/CPS (expand by length)
CopRows(t, rung) ==
    LET src == split_index(t.args[1])
        dst == split_index(t.args[2])
    IN  Expand([i \in 1..ParseInt(t.args[3]) |-> Elem(src[1], src[2] + (i - 1))],
               dst[1], dst[2], rung, ToUpper(t.op))

\* MOV (no length)
MovRows(t, rung) ==
    LET dst_full == t.args[2]
        dst_base == split_index(dst_full)[1]
    IN  IF dst_full \in dest_tags_set
        THEN <<Row(dst_full, Get(base_desc_map, dst_base, ""), Get(dtype_map, dst_base, <<>>),
                   rung.Program, rung.Routine, rung.Number, MOV, t.args[1])>>
        ELSE <<>>

\* FflLen with one element assumed when the control has no length
FflLen_DefaultOne(t) == Get(control_len_map, strip_index(t.args[3]), 1)

\* control_len_map.get(ctl_base), 0 standing for None: "if not ffl_len" skips both
FflLen(t) == Get(control_len_map, strip_index(t.args[3]), 0)

\* FFL: expand destination using LEN from control tag
FflRows(t, rung) ==
    LET dst == split_index(t.args[2])
    IN  IF FflLen(t) = 0 THEN <<>>
        ELSE Expand([i \in 1..FflLen(t) |-> t.args[1]], dst[1], dst[2], rung, FFL)

\* mp.get("LocalIndex", "0")
LocalIndexS(mp) == IF mp.LocalIndex = None THEN <<"0">> ELSE mp.LocalIndex

\* if not local_elem or not req_len: continue
MsgSkipped(mp) ==
    \/ mp.LocalElement = None \/ mp.LocalElement = <<>>
    \/ mp.RequestedLength = None \/ mp.RequestedLength = <<>>

\* int(req_len) or int(local_index_s) raises ValueError
MsgRaises(mp) ==
    /\ ~MsgSkipped(mp)
    /\ (~CanInt(mp.RequestedLength) \/ ~CanInt(LocalIndexS(mp)))

\* re.match(r'^(.+?)\[(\d+)\]$', s) with local_index as the start when it fails
SplitOr(s, local_index) ==
    IF \E i \in BracketAt(s) : i > 1 THEN split_index(s) ELSE <<s, local_index>>

\* MessageParameters (length via RequestedLength)
MsgRows(mp, rung) ==
    IF MsgSkipped(mp) THEN <<>>
    ELSE LET local_index == ParseInt(LocalIndexS(mp))
             dst == SplitOr(mp.LocalElement, local_index)
             src == SplitOr(IF mp.RemoteElement = None THEN <<>> ELSE mp.RemoteElement,
                            local_index)
         IN  Expand([i \in 1..ParseInt(mp.RequestedLength) |-> Elem(src[1], src[2] + (i - 1))],
                    dst[1], dst[2], rung, MESSAGE)

\* The rows of one call for a family of instructions: those of the family's
\* regular expression when it matches the call, none otherwise
CallRows(family, t, rung) ==
    CASE family = COP -> IF cop_re(t) THEN CopRows(t, rung) ELSE <<>>
      [] family = MOV -> IF mov_re(t) THEN MovRows(t, rung) ELSE <<>>
      [] family = FFL -> IF ffl_re(t) THEN FflRows(t, rung) ELSE <<>>

\* for ... in <family>_re.findall(txt): the rows of every match, in text order
RECURSIVE FamilyRows(_, _, _)
FamilyRows(text, family, rung) ==
    IF Len(text) = 0 THEN <<>>
    ELSE CallRows(family, Head(text), rung) \o FamilyRows(Tail(text), family, rung)

RECURSIVE MsgFamilyRows(_, _)
MsgFamilyRows(msgs, rung) ==
    IF Len(msgs) = 0 THEN <<>>
    ELSE MsgRows(Head(msgs), rung) \o MsgFamilyRows(Tail(msgs), rung)

\* The rung raises: the run ends with a traceback and writes nothing
RungRaises(rung) == \E i \in DOMAIN rung.Msgs : MsgRaises(rung.Msgs[i])

\* The rows one rung appends to records: COP/CPS, then MOV, then FFL, then messages
RungRows(rung) ==
    FamilyRows(rung.Text, COP, rung)
    \o FamilyRows(rung.Text, MOV, rung)
    \o FamilyRows(rung.Text, FFL, rung)
    \o MsgFamilyRows(rung.Msgs, rung)

\* The body of the loop over root.findall(".//Rung")
ScanRungStep(st, rung) ==
    LET rows == RungRows(rung) IN
    [records |-> st.records \o rows,
     found   |-> st.found \cup {rows[i].Col45 : i \in DOMAIN rows},
     ote     |-> OteScan(st.ote, rung.Text, <<rung.Program, rung.Routine, rung.Number>>),
     bitc    |-> RungComments(st.bitc, rung.Operands)]

RECURSIVE ScanRungs(_, _)
ScanRungs(st, rungs) ==
    IF Len(rungs) = 0 THEN st
    ELSE ScanRungs(ScanRungStep(st, Head(rungs)), Tail(rungs))

-----------------------------------------------------------------------------
(* 6) Bitwise OTE sweep *)

MaxBitInt == 15
MaxBitDint == 31

\* f"{base}[{idx}].{bit}"
BitOperand(base, idx, bit) == Elem(base, idx) \o <<".">> \o IntStr(bit)

\* SweepTag without the test that an OTE drives the bit
SweepTag_NoGate(orig, found, om, bcm) ==
    LET base == split_index(orig)[1]
        idx == split_index(orig)[2]
        dt == Get(dtype_map, base, <<>>)
        max_bit == IF dt = INT THEN MaxBitInt ELSE MaxBitDint
        BitRow(bit) ==
            LET operand == BitOperand(base, idx, bit)
                ctx == Get(om, operand, <<<<"", "", <<>>>>>>)
            IN  Row(operand, Get(bcm, operand, Get(base_desc_map, base, "")), dt,
                    ctx[1][1], ctx[1][2], ctx[1][3], OTE, <<>>)
    IN  IF orig \in found \/ dt \notin {INT, DINT} THEN <<>>
        ELSE [i \in 1..(max_bit + 1) |-> BitRow(i - 1)]

\* The OTE rows of one monitored tag: only bits that actually have an OTE
SweepTag(orig, found, om, bcm) ==
    LET base == split_index(orig)[1]
        idx == split_index(orig)[2]
        dt == Get(dtype_map, base, <<>>)
        max_bit == IF dt = INT THEN MaxBitInt ELSE MaxBitDint
        Driven(bit) == Get(om, BitOperand(base, idx, bit), <<>>) # <<>>
        bits == SelectSeq([b \in 1..(max_bit + 1) |-> b - 1], Driven)
        BitRow(bit) ==
            LET operand == BitOperand(base, idx, bit)
                ctx == om[operand]
            IN  Row(operand, Get(bcm, operand, Get(base_desc_map, base, "")), dt,
                    ctx[1][1], ctx[1][2], ctx[1][3], OTE, <<>>)
    IN  IF orig \in found \/ dt \notin {INT, DINT} THEN <<>>
        ELSE [i \in DOMAIN bits |-> BitRow(bits[i])]

\* The rows the sweep appends, over tags_sorted
RECURSIVE SweepRows(_, _, _, _)
SweepRows(ts, found, om, bcm) ==
    IF Len(ts) = 0 THEN <<>>
    ELSE SweepTag(Head(ts), found, om, bcm) \o SweepRows(Tail(ts), found, om, bcm)

\* if emitted: found_original_tags.add(orig)
SweepFound(ts, found, om, bcm) ==
    found \cup {t \in Range(ts) : SweepTag(t, found, om, bcm) # <<>>}

-----------------------------------------------------------------------------
(* 7) "Not Found" rows for anything never matched *)

NotFoundRow(tag) ==
    LET base == split_index(tag)[1]
    IN  Row(tag, Get(base_desc_map, base, ""), Get(dtype_map, base, <<>>),
            "", "", <<>>, NotFound, <<>>)

\* NotFoundRows without the test of the resolved-set
RECURSIVE NotFoundRows_All(_, _)
NotFoundRows_All(ts, found) ==
    IF Len(ts) = 0 THEN <<>>
    ELSE <<NotFoundRow(Head(ts))>> \o NotFoundRows_All(Tail(ts), found)

RECURSIVE NotFoundRows(_, _)
NotFoundRows(ts, found) ==
    IF Len(ts) = 0 THEN <<>>
    ELSE (IF Head(ts) \notin found THEN <<NotFoundRow(Head(ts))>> ELSE <<>>)
         \o NotFoundRows(Tail(ts), found)

-----------------------------------------------------------------------------
(* 8) De-dup and natural sort *)

\* DataFrame.drop_duplicates(): the first of equal rows is kept
RECURSIVE drop_duplicates(_)
drop_duplicates(rows) ==
    IF Len(rows) = 0 THEN <<>>
    ELSE LET front == drop_duplicates(SubSeq(rows, 1, Len(rows) - 1))
             last == rows[Len(rows)]
         IN  IF last \in Range(front) THEN front ELSE front \o <<last>>

\* RowKey as the destination string alone: a plain lexical sort
RowKey_Lexical(r) == <<r.Col45, -1, -1>>

\* The columns __base, __idx, __bit of a row: str.extract with the pattern of
\* _tag_pat, fillna(-1), astype(int)
RowKey(r) == tag_sort_key(r.Col45)

RECURSIVE InsertRow(_, _)
InsertRow(sorted, r) ==
    IF Len(sorted) = 0 THEN <<r>>
    ELSE IF KeyLess(RowKey(r), RowKey(sorted[Len(sorted)]))
         THEN InsertRow(SubSeq(sorted, 1, Len(sorted) - 1), r) \o <<sorted[Len(sorted)]>>
         ELSE sorted \o <<r>>

\* DataFrame.sort_values(["__base", "__idx", "__bit"]): a stable sort (several keys)
RECURSIVE sort_values(_)
sort_values(rows) ==
    IF Len(rows) = 0 THEN <<>>
    ELSE InsertRow(sort_values(SubSeq(rows, 1, Len(rows) - 1)), rows[Len(rows)])

Consolidate(rows) == sort_values(drop_duplicates(rows))

-----------------------------------------------------------------------------
(* Inputs *)

MaxRungs == 2

X == <<"X">>
X2 == <<"X", "[", "2", "]">>
X02 == <<"X", "[", "0", "2", "]">>
X10 == <<"X", "[", "1", "0", "]">>
X2b3 == <<"X", "[", "2", "]", ".", "3">>
X2b20 == <<"X", "[", "2", "]", ".", "2", "0">>
Z == <<"Z">>
Z1 == <<"Z", "[", "1", "]">>
Z5 == <<"Z", "[", "5", "]">>
Ctl == <<"C", "t", "l">>
Ctl0 == <<"C", "t", "l", "[", "0", "]">>
R4 == <<"R", "[", "4", "]">>

X9 == <<"X", "[", "9", "]">>
Z7 == <<"Z", "[", "7", "]">>

\* The tags a sheet may list in Col45
TagUniverse == {X, X2, X02, X10, X2b3}

\* The non-empty cells of the Col45 column
Sheets == SUBSET TagUniverse

NoComments == <<>>

Tag(name, dt, descr, comments, len) ==
    [Name |-> name, DataType |-> dt, Description |-> descr, Comments |-> comments, LEN |-> len]

\* The array X declared 16-bit, with a description and a comment on one bit
XInt ==
    Tag(X, INT, "X words", <<[Operand |-> <<"[", "2", "]", ".", "3">>, Text |-> "tag bit"]>>,
        NoElement)

\* The array X declared 32-bit, the type written in mixed case
XDint == Tag(X, <<"D", "i", "n", "t">>, "", NoComments, NoElement)

\* FIFO controls: Ctl has a LEN of 2; the others have no usable LEN: a LEN that
\* is no number, a LEN member without a Value, no LEN member, and a LEN of 2 on
\* a tag that is no CONTROL.  CtlU is declared nowhere.
CtlBad == <<"C", "t", "l", "B", "a", "d">>
CtlNoValue == <<"C", "t", "l", "N", "o", "V", "a", "l", "u", "e">>
CtlNoLen == <<"C", "t", "l", "N", "o", "L", "e", "n">>
CtlDint == <<"C", "t", "l", "D", "i", "n", "t">>
CtlU == <<"C", "t", "l", "U">>

Controls ==
    << Tag(Ctl, <<"c", "o", "n", "t", "r", "o", "l">>, "", NoComments, <<"2">>),
       Tag(CtlBad, CONTROL, "", NoComments, <<"a", "b", "c">>),
       Tag(CtlNoValue, CONTROL, "", NoComments, None),
       Tag(CtlNoLen, CONTROL, "", NoComments, NoElement),
       Tag(CtlDint, DINT, "", NoComments, <<"2">>) >>

\* The <Tag> elements of a document: X is declared 16-bit, 32-bit or not at all
TagDocs == { <<XInt>> \o Controls, <<XDint>> \o Controls, Controls }

Call(op, args) == [op |-> op, args |-> args]

Msg(local_elem, req_len, local_index, remote_elem) ==
    [LocalElement |-> local_elem, RequestedLength |-> req_len,
     LocalIndex |-> local_index, RemoteElement |-> remote_elem]

Body(text, operands, msgs) == [Text |-> text, Operands |-> operands, Msgs |-> msgs]

Abc == <<"a", "b", "c">>

\* What a rung may hold: block copies and a move; FIFO loads on every control
\* and message requests; coils; a message request whose length is no number
RungBodies ==
    { Body(<<Call(COP, <<Z5, X9, <<"2">>>>), Call(<<"c", "p", "s">>, <<Z, X, <<"3">>>>),
             Call(MOV, <<Z1, X>>)>>, <<>>, <<>>),
      Body(<<Call(FFL, <<Z7, X02, Ctl0, <<"0">>>>), Call(FFL, <<Z7, X10, CtlBad>>),
             Call(FFL, <<Z7, X10, CtlNoValue>>), Call(FFL, <<Z7, X10, CtlNoLen>>),
             Call(FFL, <<Z7, X10, CtlDint>>), Call(FFL, <<Z7, X10, CtlU>>)>>,
           <<>>,
           <<Msg(X2, None, Abc, R4), Msg(X, <<"2">>, <<"1">>, R4)>>),
      Body(<<Call(OTE, <<X2b20>>), Call(OTE, <<X2b3>>), Call(OTE, <<X2b3>>)>>,
           <<[Operand |-> X2b3, Comment |-> "rung bit"],
             [Operand |-> X2b20, Comment |-> "rung bit"]>>, <<>>),
      Body(<<>>, <<>>, <<Msg(X2, Abc, None, R4)>>) }

\* The <Rung> elements of a document: rungs of one routine, numbered from 0
RungDocs ==
    UNION {{[i \in 1..n |-> [Program |-> "MainProgram", Routine |-> "MainRoutine",
                             Number |-> IntStr(i - 1), Text |-> b[i].Text,
                             Operands |-> b[i].Operands, Msgs |-> b[i].Msgs]]
            : b \in [1..n -> RungBodies]} : n \in 0..MaxRungs}

-----------------------------------------------------------------------------
(* extract_mappings *)

Init ==
    /\ col45 \in Sheets
    /\ l5x_tags = <<>>
    /\ l5x_rungs = <<>>
    /\ pc = "load"
    /\ dest_tags_set = {}
    /\ tags_sorted = <<>>
    /\ dtype_map = EmptyMap
    /\ base_desc_map = EmptyMap
    /\ bit_comment_map = EmptyMap
    /\ control_len_map = EmptyMap
    /\ rung_i = 0
    /\ records = <<>>
    /\ found_original_tags = {}
    /\ ote_map = EmptyMap
    /\ df_out = <<>>

\* 1) dest_tags_set = set(...); tags_sorted = sorted(dest_tags_set, key=tag_sort_key)
LoadTags ==
    /\ pc = "load"
    /\ dest_tags_set' = col45
    /\ \E order \in IterationOrders(col45) : tags_sorted' = SortedByKey(order)
    /\ pc' = "parse"
    /\ UNCHANGED <<col45, l5x_tags, l5x_rungs, dtype_map, base_desc_map, bit_comment_map,
                   control_len_map, rung_i, records, found_original_tags, ote_map, df_out>>

\* 2) Parse the L5X once: the document is whatever the file holds
ParseL5X ==
    /\ pc = "parse"
    /\ l5x_tags' \in TagDocs
    /\ l5x_rungs' \in RungDocs
    /\ pc' = "index"
    /\ UNCHANGED <<col45, dest_tags_set, tags_sorted, dtype_map, base_desc_map,
                   bit_comment_map, control_len_map, rung_i, records, found_original_tags,
                   ote_map, df_out>>

\* 3) the four maps, from every <Tag>
BuildIndex ==
    /\ pc = "index"
    /\ LET maps == IndexTags([dtype |-> EmptyMap, desc |-> EmptyMap, bitc |-> EmptyMap,
                              clen |-> EmptyMap], l5x_tags)
       IN  /\ dtype_map' = maps.dtype
           /\ base_desc_map' = maps.desc
           /\ bit_comment_map' = maps.bitc
           /\ control_len_map' = maps.clen
    /\ pc' = "scan"
    /\ UNCHANGED <<col45, l5x_tags, l5x_rungs, dest_tags_set, tags_sorted, rung_i, records,
                   found_original_tags, ote_map, df_out>>

\* 5) one iteration of the loop over the rungs
ScanRung ==
    /\ pc = "scan"
    /\ rung_i < Len(l5x_rungs)
    /\ ~RungRaises(l5x_rungs[rung_i + 1])
    /\ LET st == ScanRungStep([records |-> records, found |-> found_original_tags,
                               ote |-> ote_map, bitc |-> bit_comment_map],
                              l5x_rungs[rung_i + 1])
       IN  /\ records' = st.records
           /\ found_original_tags' = st.found
           /\ ote_map' = st.ote
           /\ bit_comment_map' = st.bitc
    /\ rung_i' = rung_i + 1
    /\ UNCHANGED <<col45, l5x_tags, l5x_rungs, pc, dest_tags_set, tags_sorted, dtype_map,
                   base_desc_map, control_len_map, df_out>>

\* 5) an iteration in which int() raises ValueError: the run aborts, nothing is written
ScanRungRaises ==
    /\ pc = "scan"
    /\ rung_i < Len(l5x_rungs)
    /\ RungRaises(l5x_rungs[rung_i + 1])
    /\ pc' = "aborted"
    /\ UNCHANGED <<col45, l5x_tags, l5x_rungs, dest_tags_set, tags_sorted, dtype_map,
                   base_desc_map, bit_comment_map, control_len_map, rung_i, records,
                   found_original_tags, ote_map, df_out>>

\* 6) the whole bit sweep, entered when the rung loop is exhausted
BitSweep ==
    /\ pc = "scan"
    /\ rung_i = Len(l5x_rungs)
    /\ records' = records \o SweepRows(tags_sorted, found_original_tags, ote_map, bit_comment_map)
    /\ found_original_tags' =
           SweepFound(tags_sorted, found_original_tags, ote_map, bit_comment_map)
    /\ pc' = "notfound"
    /\ UNCHANGED <<col45, l5x_tags, l5x_rungs, dest_tags_set, tags_sorted, dtype_map,
                   base_desc_map, bit_comment_map, control_len_map, rung_i, ote_map, df_out>>

\* 7) the "Not Found" pass
ReportNotFound ==
    /\ pc = "notfound"
    /\ records' = records \o NotFoundRows(tags_sorted, found_original_tags)
    /\ pc' = "consolidate"
    /\ UNCHANGED <<col45, l5x_tags, l5x_rungs, dest_tags_set, tags_sorted, dtype_map,
                   base_desc_map, bit_comment_map, control_len_map, rung_i,
                   found_original_tags, ote_map, df_out>>

\* 8) - 9) de-dup, natural sort, write
WriteTable ==
    /\ pc = "consolidate"
    /\ df_out' = Consolidate(records)
    /\ pc' = "done"
    /\ UNCHANGED <<col45, l5x_tags, l5x_rungs, dest_tags_set, tags_sorted, dtype_map,
                   base_desc_map, bit_comment_map, control_len_map, rung_i, records,
                   found_original_tags, ote_map>>

Next ==
    \/ LoadTags
    \/ ParseL5X
    \/ BuildIndex
    \/ ScanRung
    \/ ScanRungRaises
    \/ BitSweep
    \/ ReportNotFound
    \/ WriteTable

Spec == Init /\ [][Next]_vars

-----------------------------------------------------------------------------
(* Properties *)

Done == pc = "done"

\* The rungs the scan has gone through
Scanned == 1..rung_i

\* The rung whose program / routine / number a row carries
FromRung(row, rung) ==
    /\ row.Program = rung.Program
    /\ row.Routine = rung.Routine
    /\ row.Rung = rung.Number

\* The tables a property speaks of: the records so far and the table written
Tables == {records, df_out}

\* C1 - Completeness: once the run is done, every monitored tag is the
\* destination (Col45) of at least one row of the output table.
C1_Completeness ==
    Done => \A t \in col45 : \E i \in DOMAIN df_out : df_out[i].Col45 = t

\* C2 - No phantom destinations: the destination of every row of the output
\* table is a member of the monitored-tag set.
C2_NoPhantomDestinations ==
    Done => \A i \in DOMAIN df_out : df_out[i].Col45 \in col45

\* C3 - Expansion offset law: for every block copy (COP or CPS) of a scanned
\* rung, with source S[a], destination D[b] and length n, and every k in
\* 0..n-1 with D[b+k] monitored, there is a row with destination D[b+k], source
\* S[a+k], the instruction's name and the rung's program / routine / number; and
\* every COP or CPS row is such a row of some block copy of a scanned rung, so
\* that no k outside 0..n-1 yields a row.  Holds of the records at any time and
\* of the written table.
C3_ExpansionOffsetLaw ==
    \A table \in (IF Done THEN Tables ELSE {records}) :
        /\ \A r \in Scanned : \A j \in DOMAIN l5x_rungs[r].Text :
               LET t == l5x_rungs[r].Text[j]
                   S == split_index(t.args[1])
                   D == split_index(t.args[2])
               IN  cop_re(t) =>
                       \A k \in 0..(ParseInt(t.args[3]) - 1) :
                           Elem(D[1], D[2] + k) \in col45 =>
                               \E i \in DOMAIN table :
                                   /\ table[i].Col45 = Elem(D[1], D[2] + k)
                                   /\ table[i].Source = Elem(S[1], S[2] + k)
                                   /\ table[i].Instruction = ToUpper(t.op)
                                   /\ FromRung(table[i], l5x_rungs[r])
        /\ \A i \in DOMAIN table :
               table[i].Instruction \in {COP, CPS} =>
                   \E r \in Scanned : \E j \in DOMAIN l5x_rungs[r].Text :
                       LET t == l5x_rungs[r].Text[j]
                           S == split_index(t.args[1])
                           D == split_index(t.args[2])
                       IN  /\ cop_re(t)
                           /\ table[i].Instruction = ToUpper(t.op)
                           /\ FromRung(table[i], l5x_rungs[r])
                           /\ \E k \in 0..(ParseInt(t.args[3]) - 1) :
                                  /\ table[i].Col45 = Elem(D[1], D[2] + k)
                                  /\ table[i].Source = Elem(S[1], S[2] + k)
                                  /\ table[i].Col45 \in col45

Z6 == <<"Z", "[", "6", "]">>
Z2 == <<"Z", "[", "2", "]">>

\* C3 witness: COP(Z[5], X[9], 2) gave X[10] <- Z[6] while X[9] is not monitored,
\* and cps(Z, X, 3), whose operands have no index, gave X[2] <- Z[2] as CPS.
C3_Witness ==
    /\ Done
    /\ X9 \notin col45
    /\ \E i \in DOMAIN df_out :
           df_out[i].Col45 = X10 /\ df_out[i].Source = Z6 /\ df_out[i].Instruction = COP
    /\ \E i \in DOMAIN df_out :
           df_out[i].Col45 = X2 /\ df_out[i].Source = Z2 /\ df_out[i].Instruction = CPS

\* Some scanned rung's text holds an OTE on exactly this operand
OteDriven(operand) ==
    \E r \in Scanned : \E j \in DOMAIN l5x_rungs[r].Text :
        ote_text_re(l5x_rungs[r].Text[j]) /\ l5x_rungs[r].Text[j].args[1] = operand

\* The document declares the base with this type (in any letter case)
Declared(base, dt) ==
    \E i \in DOMAIN l5x_tags : l5x_tags[i].Name = base /\ ToUpper(l5x_tags[i].DataType) = dt

\* The bit operands of a monitored INT / DINT element: 16 or 32 of them
BitsOf(t) ==
    {BitOperand(split_index(t)[1], split_index(t)[2], b) :
        b \in 0..(IF Declared(split_index(t)[1], INT) THEN MaxBitInt ELSE MaxBitDint)}

TransferKinds == {COP, CPS, MOV, FFL, MESSAGE}

\* C4 - Bit sweep gating: a row of kind OTE has as destination an operand that
\* an OTE instruction of some rung drives; and when the run is done, a
\* monitored INT / DINT element that no value-transfer row resolves and none of
\* whose bits an OTE drives has a Not Found row, has no row of another kind,
\* and none of its bits has an OTE row.
C4_BitSweepGating ==
    /\ \A table \in (IF Done THEN Tables ELSE {records}) : \A i \in DOMAIN table :
           table[i].Instruction = OTE => OteDriven(table[i].Col45)
    /\ Done =>
           \A t \in col45 :
               LET bits == BitsOf(t) IN
               ( /\ Declared(split_index(t)[1], INT) \/ Declared(split_index(t)[1], DINT)
                 /\ \A i \in DOMAIN df_out :
                        df_out[i].Col45 = t => df_out[i].Instruction \notin TransferKinds
                 /\ \A operand \in bits : ~OteDriven(operand) )
               => /\ \E i \in DOMAIN df_out :
                         df_out[i].Col45 = t /\ df_out[i].Instruction = NotFound
                  /\ \A i \in DOMAIN df_out :
                         df_out[i].Col45 = t => df_out[i].Instruction = NotFound
                  /\ \A i \in DOMAIN df_out :
                         df_out[i].Instruction = OTE => df_out[i].Col45 \notin bits

\* C4 witness: an OTE drives X[2].3 and the table has its OTE row, while the
\* monitored element X[10] of the same INT / DINT array, with no bit driven, is
\* reported Not Found.
C4_Witness ==
    /\ Done
    /\ \E i \in DOMAIN df_out : df_out[i].Col45 = X2b3 /\ df_out[i].Instruction = OTE
    /\ X10 \in col45
    /\ Declared(X, INT) \/ Declared(X, DINT)
    /\ \E i \in DOMAIN df_out : df_out[i].Col45 = X10 /\ df_out[i].Instruction = NotFound

\* The control operand's base tag has a recorded length: it is declared, typed
\* CONTROL, and its LEN member has a Value that is a number
LenKnown(ctl) ==
    \E i \in DOMAIN l5x_tags :
        /\ l5x_tags[i].Name = strip_index(ctl)
        /\ ToUpper(l5x_tags[i].DataType) = CONTROL
        /\ l5x_tags[i].LEN \notin {NoElement, None}
        /\ AllDigits(l5x_tags[i].LEN)

DeclaredLen(ctl) ==
    ParseInt(l5x_tags[CHOOSE i \in DOMAIN l5x_tags : l5x_tags[i].Name = strip_index(ctl)].LEN)

\* C5 - Length unknown implies no expansion: every row of kind FFL comes from
\* an FFL of a scanned rung whose control has a recorded length (its
\* destination one of the LEN elements from the FFL's destination, its source
\* the FFL's source), and while the rungs are scanned every tag marked resolved
\* is the destination of a row: an FFL without a recorded length yields no row
\* and marks nothing.
C5_LengthUnknownNoExpansion ==
    /\ \A table \in (IF Done THEN Tables ELSE {records}) : \A i \in DOMAIN table :
           table[i].Instruction = FFL =>
               \E r \in Scanned : \E j \in DOMAIN l5x_rungs[r].Text :
                   LET t == l5x_rungs[r].Text[j]
                       D == split_index(t.args[2])
                   IN  /\ ffl_re(t)
                       /\ LenKnown(t.args[3])
                       /\ FromRung(table[i], l5x_rungs[r])
                       /\ table[i].Source = t.args[1]
                       /\ \E k \in 0..(DeclaredLen(t.args[3]) - 1) :
                              table[i].Col45 = Elem(D[1], D[2] + k)
    /\ pc = "scan" =>
           \A t \in found_original_tags : \E i \in DOMAIN records : records[i].Col45 = t

\* C5 witness: a scanned rung holds an FFL into the monitored X[10] whose
\* control has no recorded length, X[10] is not resolved, and the FFL on the
\* control with LEN 2 gave its row for X[2].
C5_Witness ==
    /\ Done
    /\ X10 \in col45
    /\ X10 \notin found_original_tags
    /\ \E r \in Scanned : \E j \in DOMAIN l5x_rungs[r].Text :
           LET t == l5x_rungs[r].Text[j]
           IN  ffl_re(t) /\ ~LenKnown(t.args[3]) /\ t.args[2] = X10
    /\ \E i \in DOMAIN df_out : df_out[i].Col45 = X2 /\ df_out[i].Instruction = FFL

\* The Not Found rows of the table for a tag
NotFoundAt(t) ==
    {i \in DOMAIN df_out : df_out[i].Col45 = t /\ df_out[i].Instruction = NotFound}

\* C6 - Unresolved reporting: when the run is done, a monitored tag that is not
\* in the resolved-set has exactly one Not Found row, with empty program,
\* routine, rung and source; a monitored tag in the resolved-set has none.
C6_UnresolvedReporting ==
    Done =>
        \A t \in col45 :
            IF t \notin found_original_tags
            THEN /\ Cardinality(NotFoundAt(t)) = 1
                 /\ \A i \in NotFoundAt(t) :
                        /\ df_out[i].Program = "" /\ df_out[i].Routine = ""
                        /\ df_out[i].Rung = <<>> /\ df_out[i].Source = <<>>
            ELSE NotFoundAt(t) = {}

\* C6 witness: a run that resolved one monitored tag and left another unresolved
C6_Witness ==
    /\ Done
    /\ \E t \in col45 : t \in found_original_tags
    /\ \E t \in col45 : t \notin found_original_tags /\ NotFoundAt(t) # {}

\* C7 - Error tolerance: a length or index attribute that is no number never
\* aborts the run.
C7_NeverAborts == pc # "aborted"

\* The destinations of the table, row by row
Destinations == [i \in DOMAIN df_out |-> df_out[i].Col45]

\* The destinations of the example, in the order the table must give them
NaturalOrder == <<X, X2, X2b3, X10>>

\* C8 - Natural sort: when the run is done, the rows of the table are in
\* ascending order of the key (base, array index or -1, bit index or -1) of
\* their destinations; in particular rows for X come before rows for X[2],
\* these before rows for X[2].3, and these before rows for X[10].
C8_NaturalSort ==
    Done =>
        LET key == [i \in DOMAIN df_out |-> tag_sort_key(df_out[i].Col45)] IN
        /\ \A i, j \in DOMAIN df_out : i < j => ~KeyLess(key[j], key[i])
        /\ \A p, q \in DOMAIN NaturalOrder : \A i, j \in DOMAIN df_out :
               (p < q /\ df_out[i].Col45 = NaturalOrder[p] /\ df_out[j].Col45 = NaturalOrder[q])
                   => i < j

\* C8 witness: the table for the destinations X[2], X[10], X[2].3 and X
C8_Witness == Done /\ Destinations = NaturalOrder

\* The table a run on the inputs of this run writes when the monitored tags
\* come sorted as ts
RunTable(ts) ==
    LET maps == IndexTags([dtype |-> EmptyMap, desc |-> EmptyMap, bitc |-> EmptyMap,
                           clen |-> EmptyMap], l5x_tags)
        st == ScanRungs([records |-> <<>>, found |-> {}, ote |-> EmptyMap,
                         bitc |-> maps.bitc], l5x_rungs)
        swept == st.records \o SweepRows(ts, st.found, st.ote, st.bitc)
        found == SweepFound(ts, st.found, st.ote, st.bitc)
    IN  Consolidate(swept \o NotFoundRows(ts, found))

\* C9 - Determinism: the table a run writes is the table of any run on the
\* same sheet and document, whatever order the iteration of the monitored-tag
\* set yields.
C9_Determinism ==
    Done => \A order \in IterationOrders(col45) : RunTable(SortedByKey(order)) = df_out

\* The number of OTE calls on the operand in the text of rung r
RECURSIVE OteCount(_, _)
OteCount(text, operand) ==
    IF Len(text) = 0 THEN 0
    ELSE (IF ote_text_re(Head(text)) /\ Head(text).args[1] = operand THEN 1 ELSE 0)
         + OteCount(Tail(text), operand)

\* One (program, routine, rung) entry per OTE call on the operand in the first
\* n rungs, in document order
RECURSIVE Occurrences(_, _)
Occurrences(operand, n) ==
    IF n = 0 THEN <<>>
    ELSE Occurrences(operand, n - 1)
         \o [k \in 1..OteCount(l5x_rungs[n].Text, operand) |->
               <<l5x_rungs[n].Program, l5x_rungs[n].Routine, l5x_rungs[n].Number>>]

\* The operands of the OTE calls in the document's rung texts
OteOperands ==
    UNION {{l5x_rungs[r].Text[j].args[1] :
              j \in {k \in DOMAIN l5x_rungs[r].Text : ote_text_re(l5x_rungs[r].Text[k])}} :
             r \in DOMAIN l5x_rungs}

\* C10 - First-occurrence attribution: the coil-occurrence map holds, for every
\* operand, one entry per OTE call on it in the rungs scanned so far, in
\* document order (so no entry is ever overwritten), and every row of kind OTE
\* has an empty source and the program / routine / number of the first scanned
\* rung that drives its destination.
C10_FirstOccurrence ==
    /\ \A operand \in OteOperands \cup DOMAIN ote_map :
           Get(ote_map, operand, <<>>) = Occurrences(operand, rung_i)
    /\ \A table \in (IF Done THEN Tables ELSE {records}) : \A i \in DOMAIN table :
           table[i].Instruction = OTE =>
               /\ table[i].Source = <<>>
               /\ \E r \in Scanned :
                      /\ OteCount(l5x_rungs[r].Text, table[i].Col45) > 0
                      /\ \A q \in 1..(r - 1) : OteCount(l5x_rungs[q].Text, table[i].Col45) = 0
                      /\ FromRung(table[i], l5x_rungs[r])

\* C10 witness: both rungs of the document drive X[2].3, the map holds an entry
\* for each of the calls, and the OTE row for X[2].3 names rung 0
C10_Witness ==
    /\ Done
    /\ Len(l5x_rungs) > 1
    /\ \A r \in DOMAIN l5x_rungs : OteCount(l5x_rungs[r].Text, X2b3) > 0
    /\ Len(ote_map[X2b3]) > Len(l5x_rungs)
    /\ \E i \in DOMAIN df_out :
           /\ df_out[i].Col45 = X2b3 /\ df_out[i].Instruction = OTE
           /\ df_out[i].Rung = l5x_rungs[1].Number

\* C11 - Tier exclusivity: when the run is done, no destination of the output
\* table has both a Not Found row and a row of another instruction kind (COP,
\* CPS, MOV, FFL, MESSAGE or OTE); also when an integer element X[2] and its
\* bit X[2].3 are both monitored and an OTE drives X[2].3.
C11_TierExclusivity ==
    Done =>
        \A i, j \in DOMAIN df_out :
            (df_out[i].Col45 = df_out[j].Col45 /\ df_out[i].Instruction = NotFound)
                => df_out[j].Instruction = NotFound

====
